---------------------------- MODULE Spec2Model ----------------------------
(***************************************************************************)
(* A model of fincalc.py, the Personal Finance Planner script.             *)
(*                                                                         *)
(* The script is one top-to-bottom run: four tabs (budget tracker, savings *)
(* goal, EMI calculator, investment simulator) followed by the report      *)
(* block.  Each tab is one action; pc is the position of the run.          *)
(*                                                                         *)
(* Numbers.  The script computes in Python floats.  The model computes the *)
(* same formulas in exact arithmetic: tab 1 in whole dollars, tabs 2 and 3 *)
(* in rationals <<numerator, denominator>> (normalised, denominator > 0),  *)
(* tab 4 in fixed point (its monthly factors are twelfth roots).  Rounding *)
(* of IEEE doubles is outside the model.  Inputs are whole numbers, for    *)
(* which the float quotient a / b is a whole number exactly when a / b is. *)
(*                                                                         *)
(* Inputs.  The calculations are modelled as functions of the values the   *)
(* widgets return; the widgets' min_value / max_value arguments belong to  *)
(* the presentation layer and are not part of the calculations.            *)
(***************************************************************************)
EXTENDS Integers, Sequences, FiniteSets, TLC

(***************************************************************************)
(* Bounds of the model.                                                    *)
(***************************************************************************)
MaxIncome == 2
MaxAmount == 1
MaxGoal == 4
FarGoal == 134
MaxMonthly == 2
MaxCurrent == 2
MaxMonths == 3
MaxPrincipal == 3
MaxTenureMonths == 3
MaxInitial == 2
MaxContribution == 2
MaxYears == 2

(***************************************************************************)
(* Exact rational arithmetic: the float operators +, -, *, / and ** of the *)
(* script without rounding.                                                *)
(***************************************************************************)
Abs(n) == IF n < 0 THEN 0 - n ELSE n

RECURSIVE Gcd(_, _)
Gcd(a, b) == IF b = 0 THEN a ELSE Gcd(b, a % b)

RNorm(n, d) ==
    LET g == Gcd(Abs(n), Abs(d))
        s == IF d < 0 THEN 0 - 1 ELSE 1
    IN  <<(s * n) \div g, (s * d) \div g>>

RInt(k) == <<k, 1>>

RAdd(x, y) ==
    LET g == Gcd(x[2], y[2])
    IN  RNorm(x[1] * (y[2] \div g) + y[1] * (x[2] \div g), (x[2] \div g) * y[2])

RNeg(x) == <<0 - x[1], x[2]>>

RSub(x, y) == RAdd(x, RNeg(y))

RMul(x, y) ==
    LET g1 == Gcd(Abs(x[1]), y[2])
        g2 == Gcd(Abs(y[1]), x[2])
    IN  RNorm((x[1] \div g1) * (y[1] \div g2), (x[2] \div g2) * (y[2] \div g1))

\* x / y for y # 0; the script's division raises ZeroDivisionError for y = 0,
\* which every caller tests before dividing.
RDiv(x, y) == RMul(x, RNorm(y[2], y[1]))

RIsZero(x) == x[1] = 0

RLt(x, y) == RSub(x, y)[1] < 0

RLeq(x, y) == RSub(x, y)[1] <= 0

\* x ** n for an integer n (a negative n inverts; x # 0 then).
RECURSIVE RPow(_, _)
RPow(x, n) ==
    IF n = 0 THEN RInt(1)
    ELSE IF n < 0 THEN RDiv(RInt(1), RPow(x, 0 - n))
    ELSE RMul(x, RPow(x, n - 1))

\* int(np.ceil(x))
RCeil(x) == 0 - ((0 - x[1]) \div x[2])

\* A script variable that no statement has assigned.
Unbound == "unbound"

VARIABLES
    pc,        \* position of the script run
    clicked,   \* the button whose click triggered this run, or "none"
    widgets,   \* the values the widgets return in this run
    bound,     \* the script names assigned so far in this run
    error,     \* the exception that ended the run, or "none"
    tab1,      \* what tab 1 computed
    tab2,      \* what tab 2 computed
    tab3,      \* what tab 3 computed
    tab4,      \* what tab 4 computed
    report     \* the report text's values, once generated

vars == <<pc, clicked, widgets, bound, error, tab1, tab2, tab3, tab4, report>>

(***************************************************************************)
(* Tab 1: monthly budget tracker.                                          *)
(***************************************************************************)
\* expense_categories, in the dict's insertion order
Categories ==
    <<"Housing (Rent/Mortgage)", "Utilities", "Food/Groceries", "Transportation",
      "Entertainment", "Healthcare", "Debt Payments", "Savings", "Other">>

CategoryNames == {Categories[i] : i \in 1..Len(Categories)}

\* sum(expenses.values()): the values are added in insertion order
RECURSIVE SumFirst(_, _)
SumFirst(expenses, k) ==
    IF k = 0 THEN 0 ELSE SumFirst(expenses, k - 1) + expenses[Categories[k]]

SumValuesLosingLast(expenses) == SumFirst(expenses, Len(Categories) - 1)

SumValues(expenses) == SumFirst(expenses, Len(Categories))

\* {k: v for k, v in expenses.items() if v > 0}
FilterPositive(expenses) ==
    [c \in {k \in DOMAIN expenses : expenses[k] > 0} |-> expenses[c]]

NoTab1 == [income |-> Unbound, expenses |-> Unbound, total_expenses |-> Unbound,
           balance |-> Unbound, filtered_expenses |-> Unbound, chart |-> Unbound]

Tab1 ==
    /\ pc = "tab1"
    /\ LET income == widgets.income
           expenses == [c \in CategoryNames |-> widgets.expenses[c]]
           total_expenses == SumValues(expenses)
           balance == income - total_expenses
           filtered_expenses == FilterPositive(expenses)
       IN  /\ tab1' = [income |-> income, expenses |-> expenses,
                       total_expenses |-> total_expenses, balance |-> balance,
                       filtered_expenses |-> filtered_expenses,
                       chart |-> IF DOMAIN filtered_expenses # {}
                                 THEN "pie and bar" ELSE "warning"]
           /\ bound' = bound \cup {"income", "expense_categories", "expenses",
                                   "total_expenses", "balance", "filtered_expenses"}
    /\ pc' = "tab2"
    /\ UNCHANGED <<clicked, widgets, error, tab2, tab3, tab4, report>>

(***************************************************************************)
(* Tab 2: savings goal calculator.                                         *)
(***************************************************************************)
\* if monthly_savings <= 0: st.error(...)
InvalidSavings(monthly_savings) == monthly_savings <= 0

\* if remaining <= 0: st.success("already reached")
GoalAlreadyMetStrict(remaining) == remaining < 0

GoalAlreadyMet(remaining) == remaining <= 0

\* real_interest_rate = (1 + interest_rate/100) / (1 + inflation_rate/100) - 1
RealInterestRate(interest_rate, inflation_rate) ==
    RSub(RDiv(RAdd(RInt(1), RDiv(RInt(interest_rate), RInt(100))),
              RAdd(RInt(1), RDiv(RInt(inflation_rate), RInt(100)))),
         RInt(1))

\* monthly_rate = real_interest_rate / 12
SavingsMonthlyRate(interest_rate, inflation_rate) ==
    RDiv(RealInterestRate(interest_rate, inflation_rate), RInt(12))

\* 1 + (monthly_rate * remaining) / monthly_savings, the argument of np.log
LogArgument(monthly_rate, remaining, monthly_savings) ==
    RAdd(RInt(1), RDiv(RMul(monthly_rate, RInt(remaining)), RInt(monthly_savings)))

\* int(np.ceil(np.log(x) / np.log(b))) for x > 0, b > 0, b # 1, floored at 0
\* (the caller takes max(1, .)): the least n >= k with b^n >= x when b > 1,
\* with b^n <= x when b < 1.  power is b^k.  Past MaxMonths the search stops
\* and answers MaxMonths + 1.
RECURSIVE CeilLogRatio(_, _, _, _)
CeilLogRatio(x, b, k, power) ==
    IF (IF RLt(RInt(1), b) THEN RLeq(x, power) ELSE RLeq(power, x)) THEN k
    ELSE IF k >= MaxMonths THEN MaxMonths + 1
    ELSE CeilLogRatio(x, b, k + 1, RMul(power, b))

Max(a, b) == IF a >= b THEN a ELSE b

\* What np.log answers for the argument of line 127 when it is not a
\* positive number: "nan" for an argument < 0, "inf" for 0 (np.log warns and
\* goes on); "none" otherwise, and in the zero-rate branch, which has no log.
LogFailure(monthly_rate, remaining, monthly_savings) ==
    IF RIsZero(monthly_rate) THEN "none"
    ELSE LET x == LogArgument(monthly_rate, remaining, monthly_savings)
         IN  IF x[1] < 0 THEN "nan" ELSE IF x[1] = 0 THEN "inf" ELSE "none"

\* months = max(1, int(np.ceil(months))), lines 124-129, when np.log is defined
MonthsToGoal(monthly_rate, remaining, monthly_savings) ==
    IF RIsZero(monthly_rate)
    THEN Max(1, RCeil(RDiv(RInt(remaining), RInt(monthly_savings))))
    ELSE Max(1, CeilLogRatio(LogArgument(monthly_rate, remaining, monthly_savings),
                             RAdd(RInt(1), monthly_rate), 0, RInt(1)))

\* The loop of lines 139-143: amounts after range(0, k + 1) starting from
\* current_amount.  (The update after the last append is never read.)
RECURSIVE Projection(_, _, _, _)
Projection(current_amount, monthly_rate, monthly_savings, k) ==
    IF k = 0 THEN <<current_amount>>
    ELSE <<current_amount>> \o
         Projection(RAdd(RMul(current_amount, RAdd(RInt(1), monthly_rate)),
                         RInt(monthly_savings)),
                    monthly_rate, monthly_savings, k - 1)

NoTab2 == [msg |-> "none", months |-> Unbound, years |-> Unbound,
           remaining_months |-> Unbound, amounts |-> Unbound,
           final_amount |-> Unbound, raised |-> "none"]

\* Lines 119-172: the branch that computes months and the projection.
ProjectSavings(remaining, monthly_savings, current_savings, interest_rate, inflation_rate) ==
    LET monthly_rate == SavingsMonthlyRate(interest_rate, inflation_rate)
        failure == LogFailure(monthly_rate, remaining, monthly_savings)
    IN  IF failure = "nan"
        THEN [NoTab2 EXCEPT !.months = "nan", !.raised = "ValueError"]
        ELSE IF failure = "inf"
        THEN [NoTab2 EXCEPT !.months = "inf", !.raised = "OverflowError"]
        ELSE LET months == MonthsToGoal(monthly_rate, remaining, monthly_savings)
                 amounts == Projection(RInt(current_savings), monthly_rate,
                                       monthly_savings, months)
             IN  [msg |-> "success: time to reach goal",
                  months |-> months,
                  years |-> months \div 12,
                  remaining_months |-> months % 12,
                  amounts |-> amounts,
                  final_amount |-> amounts[Len(amounts)],
                  raised |-> "none"]

\* The button's body with its two tests in the other order.
SolveSavingsGoalGoalFirst(goal_amount, monthly_savings, current_savings, interest_rate, inflation_rate) ==
    LET remaining == goal_amount - current_savings
    IN  IF GoalAlreadyMet(remaining)
        THEN [NoTab2 EXCEPT !.msg = "success: already reached"]
        ELSE IF InvalidSavings(monthly_savings)
        THEN [NoTab2 EXCEPT !.msg = "error: Monthly savings must be greater than 0!"]
        ELSE ProjectSavings(remaining, monthly_savings, current_savings,
                            interest_rate, inflation_rate)

\* The body of `if st.button("Calculate Time to Reach Goal")`, lines 112-172.
SolveSavingsGoal(goal_amount, monthly_savings, current_savings, interest_rate, inflation_rate) ==
    IF InvalidSavings(monthly_savings)
    THEN [NoTab2 EXCEPT !.msg = "error: Monthly savings must be greater than 0!"]
    ELSE LET remaining == goal_amount - current_savings
         IN  IF GoalAlreadyMet(remaining)
             THEN [NoTab2 EXCEPT !.msg = "success: already reached"]
             ELSE ProjectSavings(remaining, monthly_savings, current_savings,
                                 interest_rate, inflation_rate)

\* The names the button's body has assigned when it ends with outcome r.
Tab2Names(r) ==
    IF r.msg = "error: Monthly savings must be greater than 0!" THEN {}
    ELSE IF r.msg = "success: already reached" THEN {"remaining"}
    ELSE IF r.raised # "none"
    THEN {"remaining", "real_interest_rate", "monthly_rate", "months"}
    ELSE {"remaining", "real_interest_rate", "monthly_rate", "months", "years",
          "remaining_months", "dates", "amounts", "current_date", "current_amount",
          "month", "df", "fig", "ax", "final_amount"}

Tab2Inputs == {"goal_amount", "monthly_savings", "current_savings",
               "interest_rate", "inflation_rate"}

Tab2 ==
    /\ pc = "tab2"
    /\ IF clicked = "goal"
       THEN LET r == SolveSavingsGoal(widgets.goal_amount, widgets.monthly_savings,
                                      widgets.current_savings, widgets.interest_rate,
                                      widgets.inflation_rate)
            IN  /\ tab2' = r
                /\ bound' = bound \cup Tab2Inputs \cup Tab2Names(r)
                /\ error' = r.raised
                /\ pc' = IF r.raised = "none" THEN "tab3" ELSE "crashed"
       ELSE /\ tab2' = NoTab2
            /\ bound' = bound \cup Tab2Inputs
            /\ error' = error
            /\ pc' = "tab3"
    /\ UNCHANGED <<clicked, widgets, tab1, tab3, tab4, report>>

(***************************************************************************)
(* Tab 3: EMI calculator.                                                  *)
(***************************************************************************)
\* total_tenure_months = tenure_years * 12 + tenure_months
TotalTenureMonths(tenure_years, tenure_months) == tenure_years * 12 + tenure_months

\* monthly_rate = interest_rate / 12 / 100
EmiMonthlyRate(interest_rate) == RDiv(RDiv(RInt(interest_rate), RInt(12)), RInt(100))

\* The divisor of the branch of lines 191-194 that computes emi.
EmiDivisor(monthly_rate, total_tenure_months) ==
    IF RIsZero(monthly_rate) THEN RInt(total_tenure_months)
    ELSE RSub(RPow(RAdd(RInt(1), monthly_rate), total_tenure_months), RInt(1))

EmiFloorDivision(principal, monthly_rate, total_tenure_months) ==
    IF RIsZero(monthly_rate) THEN RInt(principal \div total_tenure_months)
    ELSE RDiv(RMul(RMul(RInt(principal), monthly_rate),
                   RPow(RAdd(RInt(1), monthly_rate), total_tenure_months)),
              EmiDivisor(monthly_rate, total_tenure_months))

\* emi, lines 191-194, for a divisor # 0
Emi(principal, monthly_rate, total_tenure_months) ==
    IF RIsZero(monthly_rate) THEN RDiv(RInt(principal), RInt(total_tenure_months))
    ELSE RDiv(RMul(RMul(RInt(principal), monthly_rate),
                   RPow(RAdd(RInt(1), monthly_rate), total_tenure_months)),
              EmiDivisor(monthly_rate, total_tenure_months))

\* balances.append(current_balance if current_balance > 0 else 0)
ClampAtZero(current_balance) ==
    IF RLt(RInt(0), current_balance) THEN current_balance ELSE RInt(0)

\* The loop of lines 215-223 from `month` on: one row per month, the four
\* lists months, principals, interests, balances side by side.
RECURSIVE Amortize(_, _, _, _, _)
Amortize(current_balance, emi, monthly_rate, month, last) ==
    IF month > last THEN <<>>
    ELSE LET interest_payment == RMul(current_balance, monthly_rate)
             principal_payment == RSub(emi, interest_payment)
             balance == RSub(current_balance, principal_payment)
         IN  <<[month |-> month, principal |-> principal_payment,
                interest |-> interest_payment, balance |-> ClampAtZero(balance)]>>
             \o Amortize(balance, emi, monthly_rate, month + 1, last)

\* The same loop charging interest on the original principal every month.
RECURSIVE AmortizeFlat(_, _, _, _, _, _)
AmortizeFlat(principal, current_balance, emi, monthly_rate, month, last) ==
    IF month > last THEN <<>>
    ELSE LET interest_payment == RMul(principal, monthly_rate)
             principal_payment == RSub(emi, interest_payment)
             balance == RSub(current_balance, principal_payment)
         IN  <<[month |-> month, principal |-> principal_payment,
                interest |-> interest_payment, balance |-> ClampAtZero(balance)]>>
             \o AmortizeFlat(principal, balance, emi, monthly_rate, month + 1, last)

ScheduleFlatInterest(principal, emi, monthly_rate, total_tenure_months) ==
    AmortizeFlat(RInt(principal), RInt(principal), emi, monthly_rate, 1,
                 total_tenure_months)

ScheduleOneShort(principal, emi, monthly_rate, total_tenure_months) ==
    Amortize(RInt(principal), emi, monthly_rate, 1, total_tenure_months - 1)

\* current_balance = principal; for month in range(1, total_tenure_months + 1)
Schedule(principal, emi, monthly_rate, total_tenure_months) ==
    Amortize(RInt(principal), emi, monthly_rate, 1, total_tenure_months)

Column(rows, field) == [i \in 1..Len(rows) |-> rows[i][field]]

NoTab3 == [total_tenure_months |-> Unbound, monthly_rate |-> Unbound,
           emi |-> Unbound, total_payment |-> Unbound, total_interest |-> Unbound,
           months |-> Unbound, principals |-> Unbound, interests |-> Unbound,
           balances |-> Unbound, raised |-> "none"]

\* Lines 188-223.
ComputeLoan(principal, interest_rate, tenure_years, tenure_months, show_schedule) ==
    LET total_tenure_months == TotalTenureMonths(tenure_years, tenure_months)
        monthly_rate == EmiMonthlyRate(interest_rate)
    IN  IF RIsZero(EmiDivisor(monthly_rate, total_tenure_months))
        THEN [NoTab3 EXCEPT !.total_tenure_months = total_tenure_months,
                            !.monthly_rate = monthly_rate,
                            !.raised = "ZeroDivisionError"]
        ELSE LET emi == Emi(principal, monthly_rate, total_tenure_months)
                 total_payment == RMul(emi, RInt(total_tenure_months))
                 total_interest == RSub(total_payment, RInt(principal))
                 rows == Schedule(principal, emi, monthly_rate, total_tenure_months)
                 summary == [NoTab3 EXCEPT !.total_tenure_months = total_tenure_months,
                                           !.monthly_rate = monthly_rate,
                                           !.emi = emi,
                                           !.total_payment = total_payment,
                                           !.total_interest = total_interest]
             IN  IF show_schedule
                 THEN [summary EXCEPT !.months = Column(rows, "month"),
                                      !.principals = Column(rows, "principal"),
                                      !.interests = Column(rows, "interest"),
                                      !.balances = Column(rows, "balance")]
                 ELSE summary

\* The names tab 3 has assigned when it ends with outcome r.
Tab3Names(r, show_schedule) ==
    {"principal", "tenure_years", "interest_rate", "tenure_months",
     "total_tenure_months", "monthly_rate"}
    \cup (IF r.raised = "none" THEN {"emi", "total_payment", "total_interest"} ELSE {})
    \cup (IF r.raised = "none" /\ show_schedule
          THEN {"months", "principals", "interests", "balances", "current_balance",
                "amort_df", "fig", "ax"}
               \cup (IF r.total_tenure_months >= 1
                     THEN {"month", "interest_payment", "principal_payment"} ELSE {})
          ELSE {})

Tab3 ==
    /\ pc = "tab3"
    /\ LET r == ComputeLoan(widgets.principal, widgets.emi_interest_rate,
                            widgets.tenure_years, widgets.tenure_months,
                            widgets.show_schedule)
       IN  /\ tab3' = r
           /\ bound' = bound \cup Tab3Names(r, widgets.show_schedule)
           /\ error' = r.raised
           /\ pc' = IF r.raised = "none" THEN "tab4" ELSE "crashed"
    /\ UNCHANGED <<clicked, widgets, tab1, tab2, tab4, report>>

(***************************************************************************)
(* Tab 4: investment growth simulator.  x ** (1/12) is irrational for most *)
(* x, so this tab is carried in fixed point: a number v stands for         *)
(* v / Scale, and every product, quotient and root is rounded down to a    *)
(* multiple of 1 / Scale.  Whatever is representable is exact: whole       *)
(* dollars, and 1 ** (1/12) = 1.                                           *)
(***************************************************************************)
Scale == 10 * 10 * 10

FxInt(k) == k * Scale

FxMul(a, b) == (a * b) \div Scale

FxDiv(a, b) == (a * Scale) \div b

\* The largest s in lo..hi with s^k <= target (lo^k <= target), k = 2 or 3.
RECURSIVE IntRoot(_, _, _, _)
IntRoot(target, k, lo, hi) ==
    IF lo = hi THEN lo
    ELSE LET mid == (lo + hi + 1) \div 2
             power == IF k = 2 THEN mid * mid ELSE mid * mid * mid
         IN  IF power <= target THEN IntRoot(target, k, mid, hi)
             ELSE IntRoot(target, k, lo, mid - 1)

FxSqrt(a) == IntRoot(a * Scale, 2, 0, 2 * Scale)

FxCbrt(a) == IntRoot(a * Scale * Scale, 3, 0, Scale + Scale \div 4)

\* a ** (1/12) for 0 <= a <= 2, as the cube root of the square root of the
\* square root
FxTwelfthRoot(a) == FxCbrt(FxSqrt(FxSqrt(a)))

\* (1 + annual_percent/100)**(1/12) - 1, lines 272 and 273
MonthlyCompoundRate(annual_percent) ==
    FxTwelfthRoot(FxInt(1) + FxDiv(FxInt(annual_percent), FxInt(100))) - FxInt(1)

\* real_monthly_return = (1 + monthly_return) / (1 + monthly_inflation) - 1
RealMonthlyReturn(monthly_return, monthly_inflation) ==
    FxDiv(FxInt(1) + monthly_return, FxInt(1) + monthly_inflation) - FxInt(1)

\* The loop of lines 289-299 from `month` on: one row per month, the lists
\* nominal_values, real_values, contributions side by side.
RECURSIVE Simulate(_, _, _, _, _, _, _, _)
Simulate(nominal_value, real_value, total_contributions, monthly_return, real_monthly_return, monthly_contribution, month, months) ==
    IF month > months THEN <<>>
    ELSE <<[month |-> month, nominal |-> nominal_value, real |-> real_value,
            contributions |-> total_contributions]>>
         \o Simulate(FxMul(nominal_value, FxInt(1) + monthly_return)
                         + monthly_contribution,
                     FxMul(real_value, FxInt(1) + real_monthly_return)
                         + monthly_contribution,
                     total_contributions + monthly_contribution,
                     monthly_return, real_monthly_return, monthly_contribution,
                     month + 1, months)

NoTab4 == [months |-> Unbound, monthly_return |-> Unbound,
           monthly_inflation |-> Unbound, real_monthly_return |-> Unbound,
           nominal_values |-> Unbound, real_values |-> Unbound,
           contributions |-> Unbound, final_nominal |-> Unbound,
           final_real |-> Unbound, total_contributed |-> Unbound,
           growth_nominal |-> Unbound, growth_real |-> Unbound]

InvestmentMonthsAreYears(years) == years

\* months = years * 12
InvestmentMonths(years) == years * 12

\* The body of `if st.button("Simulate Investment Growth")`, lines 271-314.
SimulateInvestment(initial_investment, monthly_contribution, years, annual_return, annual_inflation) ==
    LET months == InvestmentMonths(years)
        monthly_return == MonthlyCompoundRate(annual_return)
        monthly_inflation == MonthlyCompoundRate(annual_inflation)
        real_monthly_return == RealMonthlyReturn(monthly_return, monthly_inflation)
        rows == Simulate(FxInt(initial_investment), FxInt(initial_investment),
                         FxInt(initial_investment), monthly_return,
                         real_monthly_return, FxInt(monthly_contribution), 0, months)
        final == rows[Len(rows)]
    IN  [months |-> months, monthly_return |-> monthly_return,
         monthly_inflation |-> monthly_inflation,
         real_monthly_return |-> real_monthly_return,
         nominal_values |-> Column(rows, "nominal"),
         real_values |-> Column(rows, "real"),
         contributions |-> Column(rows, "contributions"),
         final_nominal |-> final.nominal,
         final_real |-> final.real,
         total_contributed |-> final.contributions,
         growth_nominal |-> final.nominal - final.contributions,
         growth_real |-> final.real - final.contributions]

Tab4Inputs == {"initial_investment", "monthly_contribution", "years",
               "annual_return", "annual_inflation"}

Tab4ButtonNames ==
    {"months", "monthly_return", "monthly_inflation", "real_monthly_return",
     "dates", "nominal_values", "real_values", "contributions", "current_date",
     "nominal_value", "real_value", "total_contributions", "month",
     "investment_df", "final_nominal", "final_real", "total_contributed",
     "growth_nominal", "growth_real", "fig", "ax"}

Tab4 ==
    /\ pc = "tab4"
    /\ IF clicked = "simulate"
       THEN /\ tab4' = SimulateInvestment(widgets.initial_investment,
                                          widgets.monthly_contribution, widgets.years,
                                          widgets.annual_return, widgets.annual_inflation)
            /\ bound' = bound \cup Tab4Inputs \cup Tab4ButtonNames
       ELSE /\ tab4' = NoTab4
            /\ bound' = bound \cup Tab4Inputs
    /\ pc' = "report"
    /\ UNCHANGED <<clicked, widgets, error, tab1, tab2, tab3, report>>

(***************************************************************************)
(* The report block, lines 341-372.                                        *)
(***************************************************************************)
\* The script names the f-string of lines 343-364 reads.
ReportReads ==
    {"income", "total_expenses", "balance", "goal_amount", "monthly_savings",
     "principal", "emi", "total_interest", "initial_investment", "years",
     "final_nominal"}

NoReport == [generated |-> FALSE]

Report ==
    /\ pc = "report"
    /\ IF clicked = "report"
       THEN IF ReportReads \subseteq bound
            THEN /\ report' = [generated |-> TRUE,
                               income |-> tab1.income,
                               total_expenses |-> tab1.total_expenses,
                               balance |-> tab1.balance,
                               goal_amount |-> widgets.goal_amount,
                               monthly_savings |-> widgets.monthly_savings,
                               principal |-> widgets.principal,
                               emi |-> tab3.emi,
                               total_interest |-> tab3.total_interest,
                               initial_investment |-> widgets.initial_investment,
                               years |-> widgets.years,
                               final_nominal |-> tab4.final_nominal]
                 /\ pc' = "done"
                 /\ error' = error
            ELSE /\ report' = report
                 /\ pc' = "crashed"
                 /\ error' = "NameError"
       ELSE /\ report' = report
            /\ pc' = "done"
            /\ error' = error
    /\ UNCHANGED <<clicked, widgets, bound, tab1, tab2, tab3, tab4>>

(***************************************************************************)
(* The state a run starts from, and the inputs of each calculation.        *)
(***************************************************************************)
\* Widget values of a run in which nothing has been entered.
BlankWidgets ==
    [income |-> 0, expenses |-> [c \in CategoryNames |-> 0],
     goal_amount |-> 1, monthly_savings |-> 1, current_savings |-> 0,
     interest_rate |-> 0, inflation_rate |-> 0,
     principal |-> 1, tenure_years |-> 0, tenure_months |-> 1,
     emi_interest_rate |-> 0, show_schedule |-> FALSE,
     initial_investment |-> 0, monthly_contribution |-> 0, years |-> 1,
     annual_return |-> 0, annual_inflation |-> 0]

\* A fresh run at script position p: no name assigned, nothing computed.
RunStartsAt(p) ==
    /\ pc = p
    /\ bound = {}
    /\ error = "none"
    /\ tab1 = NoTab1
    /\ tab2 = NoTab2
    /\ tab3 = NoTab3
    /\ tab4 = NoTab4
    /\ report = NoReport

(***************************************************************************)
(* The budget summarizer on its own.                                       *)
(***************************************************************************)
BudgetWidgets ==
    {[BlankWidgets EXCEPT !.income = i, !.expenses = e] :
        i \in 0..MaxIncome, e \in [CategoryNames -> 0..MaxAmount]}

InitBudget ==
    /\ RunStartsAt("tab1")
    /\ clicked = "none"
    /\ widgets \in BudgetWidgets

NextBudget == Tab1

SpecBudget == InitBudget /\ [][NextBudget]_vars

(***************************************************************************)
(* The savings goal solver on its own.                                     *)
(***************************************************************************)
GoalAmounts == (1..MaxGoal) \cup {FarGoal}

SavingsInterestRates == {0, 10, 20}

SavingsInflationRates == {0, 10}

\* The inputs whose months the model can carry: the solver stops before
\* computing months, or months <= MaxMonths.
SavingsInBound(w) ==
    \/ InvalidSavings(w.monthly_savings)
    \/ GoalAlreadyMet(w.goal_amount - w.current_savings)
    \/ LET monthly_rate == SavingsMonthlyRate(w.interest_rate, w.inflation_rate)
           remaining == w.goal_amount - w.current_savings
       IN  \/ LogFailure(monthly_rate, remaining, w.monthly_savings) # "none"
           \/ MonthsToGoal(monthly_rate, remaining, w.monthly_savings) <= MaxMonths

SavingsWidgets ==
    {w \in {[BlankWidgets EXCEPT !.goal_amount = g, !.monthly_savings = m,
                                 !.current_savings = c, !.interest_rate = i,
                                 !.inflation_rate = f] :
               g \in GoalAmounts, m \in 0..MaxMonthly, c \in 0..MaxCurrent,
               i \in SavingsInterestRates, f \in SavingsInflationRates} :
        SavingsInBound(w)}

InitSavings ==
    /\ RunStartsAt("tab2")
    /\ clicked \in {"none", "goal"}
    /\ widgets \in SavingsWidgets

NextSavings == Tab2

SpecSavings == InitSavings /\ [][NextSavings]_vars

(***************************************************************************)
(* The loan amortizer on its own.  Tenures are a few months, so that the   *)
(* powers of 1 + monthly_rate stay exact.                                  *)
(***************************************************************************)
EmiInterestRates == {0, 15, 20}

LoanWidgets ==
    {[BlankWidgets EXCEPT !.principal = p, !.tenure_years = 0, !.tenure_months = m,
                          !.emi_interest_rate = i, !.show_schedule = c] :
        p \in 1..MaxPrincipal, m \in (0 - 1)..MaxTenureMonths,
        i \in EmiInterestRates, c \in BOOLEAN}

InitLoan ==
    /\ RunStartsAt("tab3")
    /\ clicked = "none"
    /\ widgets \in LoanWidgets

NextLoan == Tab3

SpecLoan == InitLoan /\ [][NextLoan]_vars

(***************************************************************************)
(* The investment simulator on its own.                                    *)
(***************************************************************************)
AnnualReturns == {0, 7, 20}

AnnualInflations == {0, 3, 10}

InvestmentWidgets ==
    {[BlankWidgets EXCEPT !.initial_investment = v, !.monthly_contribution = c,
                          !.years = y, !.annual_return = r, !.annual_inflation = f] :
        v \in 0..MaxInitial, c \in 0..MaxContribution, y \in 1..MaxYears,
        r \in AnnualReturns, f \in AnnualInflations}

InitInvestment ==
    /\ RunStartsAt("tab4")
    /\ clicked \in {"none", "simulate"}
    /\ widgets \in InvestmentWidgets

NextInvestment == Tab4

SpecInvestment == InitInvestment /\ [][NextInvestment]_vars

(***************************************************************************)
(* The whole script.  Streamlit runs it from the top on every interaction; *)
(* st.button answers True only in the run that its own click triggered, so *)
(* at most one of the three buttons is True in a run.  Each run starts     *)
(* with no script name assigned.                                           *)
(***************************************************************************)
Buttons == {"goal", "simulate", "report"}

ScriptWidgets ==
    {[BlankWidgets EXCEPT !.income = 2, !.expenses["Other"] = e,
                          !.goal_amount = g, !.current_savings = 1,
                          !.tenure_months = m, !.emi_interest_rate = 20,
                          !.show_schedule = c, !.initial_investment = 1,
                          !.annual_return = r] :
        e \in {0, 1}, g \in {1, 2}, m \in {1, 2}, c \in BOOLEAN, r \in {0, 7}}

Init ==
    /\ RunStartsAt("tab1")
    /\ clicked \in Buttons \cup {"none"}
    /\ widgets \in ScriptWidgets

\* The next interaction: the script runs again from the top.
Rerun ==
    /\ pc \in {"done", "crashed"}
    /\ pc' = "tab1"
    /\ clicked' \in Buttons \cup {"none"}
    /\ widgets' \in ScriptWidgets
    /\ bound' = {}
    /\ error' = "none"
    /\ tab1' = NoTab1
    /\ tab2' = NoTab2
    /\ tab3' = NoTab3
    /\ tab4' = NoTab4
    /\ report' = NoReport

Next == Tab1 \/ Tab2 \/ Tab3 \/ Tab4 \/ Report \/ Rerun

Spec == Init /\ [][Next]_vars

(***************************************************************************)
(* Properties of the budget summarizer (under SpecBudget).                 *)
(***************************************************************************)
BudgetRan == pc # "tab1"

\* The sum of f over the keys in S, in no particular order.
RECURSIVE SumOver(_, _)
SumOver(f, S) ==
    IF S = {} THEN 0
    ELSE LET k == CHOOSE x \in S : TRUE IN f[k] + SumOver(f, S \ {k})

\* C1: totalExpenses is the sum of all category amounts, the zero-valued ones
\* included, balance is income - totalExpenses, and filtering out the zero
\* amounts for the charts changes neither.
C1_BudgetTotals ==
    BudgetRan
        => /\ DOMAIN tab1.expenses = CategoryNames
           /\ \A c \in CategoryNames : tab1.expenses[c] = widgets.expenses[c]
           /\ tab1.total_expenses = SumOver(widgets.expenses, CategoryNames)
           /\ tab1.balance = widgets.income - SumOver(widgets.expenses, CategoryNames)
           /\ tab1.total_expenses
                  = SumOver(tab1.filtered_expenses, DOMAIN tab1.filtered_expenses)
           /\ \A c \in CategoryNames :
                  c \in DOMAIN tab1.filtered_expenses <=> widgets.expenses[c] > 0

C1_Witness ==
    /\ BudgetRan
    /\ widgets.income = 2
    /\ widgets.expenses["Other"] = 1
    /\ widgets.expenses["Utilities"] = 0
    /\ tab1.total_expenses = 3
    /\ tab1.balance = 0 - 1
    /\ Cardinality(DOMAIN tab1.filtered_expenses) = 3

(***************************************************************************)
(* Properties of the savings goal solver (under SpecSavings).              *)
(***************************************************************************)
\* The button was pressed and tab 2 has run.
SolverRan == clicked = "goal" /\ pc # "tab2"

\* C2 as stated: whenever currentSavings >= goalAmount the solver answers
\* "already met" with no months to wait and no projection series, whatever
\* monthlySavings and the rates are.
C2_AlreadyMetWhateverTheSavings ==
    (SolverRan /\ widgets.current_savings >= widgets.goal_amount)
        => /\ tab2.msg = "success: already reached"
           /\ tab2.months = Unbound
           /\ tab2.amounts = Unbound

\* C2 as amended: whenever currentSavings >= goalAmount and monthlySavings > 0
\* the solver answers "already met": it computes no months and no projection
\* series and raises nothing, whatever the rates are.
C2_AlreadyMetWhenSavingsPositive ==
    (SolverRan /\ widgets.current_savings >= widgets.goal_amount
               /\ widgets.monthly_savings > 0)
        => /\ tab2.msg = "success: already reached"
           /\ tab2.months = Unbound
           /\ tab2.amounts = Unbound
           /\ tab2.raised = "none"

C2_Witness ==
    /\ SolverRan
    /\ widgets.current_savings = widgets.goal_amount
    /\ widgets.monthly_savings > 0
    /\ widgets.interest_rate > 0
    /\ tab2.msg = "success: already reached"

\* C3: whenever monthlySavings <= 0 the solver reports the invalid input and
\* nothing else: no months value and no projection series is produced, and
\* nothing of the branch below has been assigned.
C3_InvalidSavingsFailsAtomically ==
    (SolverRan /\ widgets.monthly_savings <= 0)
        => /\ tab2.msg = "error: Monthly savings must be greater than 0!"
           /\ tab2.months = Unbound
           /\ tab2.amounts = Unbound
           /\ tab2.final_amount = Unbound
           /\ bound \cap {"remaining", "months", "amounts"} = {}

C3_Witness ==
    /\ SolverRan
    /\ widgets.monthly_savings = 0
    /\ widgets.current_savings >= widgets.goal_amount
    /\ tab2.msg = "error: Monthly savings must be greater than 0!"

\* The projection follows amount = amount * (1 + monthly_rate) + monthly_savings.
FollowsRecurrence(amounts, monthly_rate, monthly_savings) ==
    \A k \in 1..(Len(amounts) - 1) :
        amounts[k + 1] = RAdd(RMul(amounts[k], RAdd(RInt(1), monthly_rate)),
                             RInt(monthly_savings))

\* C9: for monthlySavings > 0 and goalAmount > currentSavings >= 0 and any
\* non-negative rates the solver returns a complete result: a whole number of
\* months >= 1 (with zero real rate the ceiling of remaining / monthlySavings)
\* and a projection of months + 1 entries that starts at currentSavings and
\* follows the recurrence.
C9_CompleteResult ==
    (SolverRan /\ widgets.monthly_savings > 0
               /\ widgets.goal_amount > widgets.current_savings
               /\ widgets.current_savings >= 0)
        => /\ tab2.raised = "none"
           /\ tab2.msg = "success: time to reach goal"
           /\ tab2.months >= 1
           /\ (RIsZero(SavingsMonthlyRate(widgets.interest_rate, widgets.inflation_rate))
                 => LET remaining == widgets.goal_amount - widgets.current_savings
                    IN  \/ tab2.months = 1 /\ remaining <= widgets.monthly_savings
                        \/ /\ tab2.months * widgets.monthly_savings >= remaining
                           /\ (tab2.months - 1) * widgets.monthly_savings < remaining)
           /\ Len(tab2.amounts) = tab2.months + 1
           /\ tab2.amounts[1] = RInt(widgets.current_savings)
           /\ FollowsRecurrence(tab2.amounts,
                                SavingsMonthlyRate(widgets.interest_rate,
                                                   widgets.inflation_rate),
                                widgets.monthly_savings)

(***************************************************************************)
(* Properties of the loan amortizer (under SpecLoan).                      *)
(***************************************************************************)
LoanRan == pc # "tab3"

Tenure == TotalTenureMonths(widgets.tenure_years, widgets.tenure_months)

RECURSIVE RSum(_)
RSum(seq) == IF seq = <<>> THEN RInt(0) ELSE RAdd(seq[1], RSum(Tail(seq)))

\* C4: whenever totalTenureMonths <= 0 the computation fails with
\* InvalidInput, at zero and at non-zero interest rates alike; it returns no
\* emi, totalPayment or totalInterest and raises no other error.
C4_NonPositiveTenureIsInvalidInput ==
    (LoanRan /\ Tenure <= 0)
        => /\ tab3.raised = "InvalidInput"
           /\ tab3.emi = Unbound
           /\ tab3.total_payment = Unbound
           /\ tab3.total_interest = Unbound

\* C5: with annualInterestRate = 0, principal > 0 and totalTenureMonths > 0,
\* emi is principal / totalTenureMonths (emi times the tenure is the
\* principal), totalPayment is principal and totalInterest is 0.
C5_ZeroInterestLoan ==
    (LoanRan /\ widgets.emi_interest_rate = 0 /\ widgets.principal > 0 /\ Tenure > 0)
        => /\ tab3.raised = "none"
           /\ RMul(tab3.emi, RInt(Tenure)) = RInt(widgets.principal)
           /\ tab3.total_payment = RInt(widgets.principal)
           /\ tab3.total_interest = RInt(0)

C5_Witness ==
    /\ LoanRan
    /\ widgets.emi_interest_rate = 0
    /\ widgets.principal = 2
    /\ Tenure = 3
    /\ tab3.emi = <<2, 3>>
    /\ tab3.total_interest = RInt(0)

\* C6: for principal > 0, annualInterestRate >= 0 and totalTenureMonths = n > 0
\* the schedule's remainingBalance at month n is 0 and its principalPayment
\* entries add up to principal.
C6_ScheduleRepaysThePrincipal ==
    (LoanRan /\ widgets.show_schedule /\ widgets.principal > 0
             /\ widgets.emi_interest_rate >= 0 /\ Tenure > 0)
        => /\ tab3.raised = "none"
           /\ Len(tab3.balances) = Tenure
           /\ tab3.balances[Tenure] = RInt(0)
           /\ RSum(tab3.principals) = RInt(widgets.principal)

C6_Witness ==
    /\ LoanRan
    /\ widgets.show_schedule
    /\ widgets.emi_interest_rate = 20
    /\ Tenure = 3
    /\ tab3.balances[3] = RInt(0)
    /\ tab3.balances[2] # RInt(0)
    /\ tab3.interests[3] # RInt(0)

\* C7: the schedule has one entry per month, months 1..totalTenureMonths in
\* increasing order; every recorded remainingBalance is >= 0, and each is at
\* most the one of the month before.
C7_ScheduleShape ==
    (LoanRan /\ widgets.show_schedule /\ tab3.raised = "none")
        => /\ Len(tab3.months) = Max(Tenure, 0)
           /\ \A i \in 1..Len(tab3.months) : tab3.months[i] = i
           /\ Len(tab3.balances) = Len(tab3.months)
           /\ Len(tab3.principals) = Len(tab3.months)
           /\ Len(tab3.interests) = Len(tab3.months)
           /\ \A i \in 1..Len(tab3.balances) : RLeq(RInt(0), tab3.balances[i])
           /\ \A i \in 1..(Len(tab3.balances) - 1) :
                  RLeq(tab3.balances[i + 1], tab3.balances[i])

C7_Witness ==
    /\ LoanRan
    /\ widgets.show_schedule
    /\ widgets.emi_interest_rate = 15
    /\ Len(tab3.balances) = 3
    /\ RLt(tab3.balances[2], tab3.balances[1])
    /\ RLt(tab3.balances[3], tab3.balances[2])

(***************************************************************************)
(* Properties of the investment simulator (under SpecInvestment).          *)
(***************************************************************************)
SimulatorRan == clicked = "simulate" /\ pc # "tab4"

\* C8: with monthlyContribution = 0, annualReturn = 0 and annualInflation = 0,
\* for every initialInvestment and years >= 1, there are years * 12 + 1
\* recorded entries (month 0 through month years * 12) and in every one
\* nominalValue = realValue = initialInvestment.
C8_ZeroRatesKeepTheInvestment ==
    (SimulatorRan /\ widgets.monthly_contribution = 0 /\ widgets.annual_return = 0
                  /\ widgets.annual_inflation = 0 /\ widgets.years >= 1)
        => /\ Len(tab4.nominal_values) = widgets.years * 12 + 1
           /\ Len(tab4.real_values) = widgets.years * 12 + 1
           /\ \A i \in 1..Len(tab4.nominal_values) :
                  /\ tab4.nominal_values[i] = FxInt(widgets.initial_investment)
                  /\ tab4.real_values[i] = FxInt(widgets.initial_investment)

C8_Witness ==
    /\ SimulatorRan
    /\ widgets.monthly_contribution = 0
    /\ widgets.annual_return = 0
    /\ widgets.annual_inflation = 0
    /\ widgets.initial_investment = 2
    /\ widgets.years = 2
    /\ Len(tab4.nominal_values) = 25
    /\ tab4.final_nominal = FxInt(2)
    /\ tab4.final_real = FxInt(2)

(***************************************************************************)
(* Properties of the report block (under Spec).                            *)
(***************************************************************************)
\* C10: in a run in which "Generate PDF Report" is pressed, every name the
\* report text reads has been assigned when the run reaches the report block,
\* whatever the other buttons answered; final_nominal in particular.
C10_ReportReadsOnlyAssignedNames ==
    (pc = "report" /\ clicked = "report")
        => /\ ReportReads \subseteq bound
           /\ "final_nominal" \in bound
           /\ tab4.final_nominal # Unbound

=============================================================================
